---- MODULE Spec2Model ----
(***************************************************************************)
(* The buffered frame reader of src/src/main.rs (Connection with a         *)
(* Vec<u8> buffer and a cursor, lines 518-575): Connection::new and the    *)
(* loop of Connection::read_frame, one action per step of the loop.        *)
(*                                                                         *)
(* The transport is a TCP stream: the peer sends the bytes of `stream` and *)
(* then closes; a read into a slice of s bytes returns at most s bytes, so *)
(* a read into an empty slice returns 0.  parse_frame is called by         *)
(* read_frame but is not defined in the repository; it is modelled from    *)
(* spec.md (try_parse of 4.2/6 and the eager compaction of 4.1) over a     *)
(* small terminator-delimited grammar.                                     *)
(***************************************************************************)
EXTENDS Integers, Sequences, FiniteSets, TLC

\* ------------------------------------------------------------------ bounds
\* Longest enumerated transport stream, in bytes.
MaxStream == 4
\* Number of read_frame calls the caller makes on one Connection.
MaxCalls == 3
\* Doublings of the buffer length considered by the growth policy.
MaxDoublings == 3

\* --------------------------------------------------------- program constants
\* Vec::with_capacity(1024 * 4)
INIT_CAPACITY == 4096

\* ------------------------------------------------------------------ grammar
\* Byte values: 0 terminates a frame, 1 is payload, 2 is an invalid type byte.
Bytes == 0..2
TERMINATOR == 0
INVALID == 2

Min(a, b) == IF a <= b THEN a ELSE b
Max(a, b) == IF a >= b THEN a ELSE b

\* try_parse(bytes) -> Complete(frame, consumed) | Incomplete | Malformed.
TryParse(b) ==
    IF Len(b) = 0 THEN [kind |-> "Incomplete", frame |-> <<>>, consumed |-> 0]
    ELSE IF b[1] = INVALID THEN [kind |-> "Malformed", frame |-> <<>>, consumed |-> 0]
    ELSE LET T == {i \in 1..Len(b) : b[i] = TERMINATOR}
         IN  IF T = {} THEN [kind |-> "Incomplete", frame |-> <<>>, consumed |-> 0]
             ELSE LET k == CHOOSE i \in T : \A j \in T : i <= j
                  IN  [kind |-> "Complete", frame |-> SubSeq(b, 1, k), consumed |-> k]

\* The frames a byte sequence serializes, decoded front to back, and what is
\* left once no further frame completes.
RECURSIVE Decode(_)
Decode(b) ==
    LET r == TryParse(b)
    IN  IF r.kind = "Complete"
        THEN LET d == Decode(SubSeq(b, r.consumed + 1, Len(b)))
             IN  [frames |-> <<r.frame>> \o d.frames, rest |-> d.rest]
        ELSE [frames |-> <<>>, rest |-> b]

FramesOf(b) == Decode(b).frames
\* b is a sequence of complete serialized frames and nothing else.
WellFormed(b) == Decode(b).rest = <<>>

\* ---------------------------------------------------------------- transport
RECURSIVE SeqsUpTo(_)
SeqsUpTo(n) ==
    IF n = 0 THEN {<<>>}
    ELSE LET S == SeqsUpTo(n - 1)
         IN  S \cup {Append(s, b) : s \in {t \in S : Len(t) = n - 1}, b \in Bytes}

\* One frame longer than the initial buffer capacity.
LargeFrame == [i \in 1..(INIT_CAPACITY + 2) |-> IF i = INIT_CAPACITY + 2 THEN TERMINATOR ELSE 1]

Streams == SeqsUpTo(MaxStream) \cup {LargeFrame}

\* ------------------------------------------------------------------- state
VARIABLES
    stream,     \* every byte the peer sends before it closes the connection
    pos,        \* bytes of stream the transport has delivered to read calls
    buffer,     \* Connection.buffer: the Vec's elements, Len(buffer) = buffer.len()
    reserved,   \* Connection.buffer: the Vec's allocated capacity
    cursor,     \* Connection.cursor
    pc,         \* position in read_frame: idle | parse | grow | read | check
    n,          \* the byte count the last transport read returned
    results,    \* what the completed read_frame calls returned, in order
    ev          \* the last thing the current call did:
                \* none | start | parse | read | fail | cancel

vars == <<stream, pos, buffer, reserved, cursor, pc, n, results, ev>>

Frame(f) == [kind |-> "Frame", frame |-> f]
EndOfStream == [kind |-> "EndOfStream", frame |-> <<>>]
TruncatedStream == [kind |-> "TruncatedStream", frame |-> <<>>]
TransportError == [kind |-> "TransportError", frame |-> <<>>]
MalformedFrame == [kind |-> "MalformedFrame", frame |-> <<>>]

ResultKinds ==
    {"Frame", "EndOfStream", "TruncatedStream", "TransportError", "MalformedFrame"}

\* The frames returned so far, in order.
RECURSIVE FramesIn(_)
FramesIn(rs) ==
    IF rs = <<>> THEN <<>>
    ELSE (IF Head(rs).kind = "Frame" THEN <<Head(rs).frame>> ELSE <<>>) \o FramesIn(Tail(rs))

Returned == FramesIn(results)
LastResult == results[Len(results)]

\* The live region: the bytes of the buffer before the cursor.
Live == SubSeq(buffer, 1, cursor)

\* Connection::new
InitBuffer == <<>>
InitCursor == 0

Init ==
    /\ stream \in Streams
    /\ pos = 0
    /\ buffer = InitBuffer
    /\ reserved = INIT_CAPACITY
    /\ cursor = InitCursor
    /\ pc = "idle"
    /\ n = 0
    /\ results = <<>>
    /\ ev = "none"

\* The caller calls read_frame.
StartCall ==
    /\ pc = "idle"
    /\ Len(results) < MaxCalls
    /\ pc' = "parse"
    /\ ev' = "start"
    /\ UNCHANGED <<stream, pos, buffer, reserved, cursor, n, results>>

\* Eager compaction: the k consumed bytes leave the front of the live region,
\* the remaining live bytes move to offset 0, the buffer keeps its length.
Compact(buf, cur, k) ==
    [i \in 1..Len(buf) |-> IF i <= cur - k THEN buf[i + k] ELSE buf[i]]

\* if let Some(frame) = self.parse_frame()? { return Ok(Some(frame)); }
ParseStep ==
    /\ pc = "parse"
    /\ LET r == TryParse(Live)
       IN  IF r.kind = "Complete"
           THEN /\ buffer' = Compact(buffer, cursor, r.consumed)
                /\ cursor' = cursor - r.consumed
                /\ results' = Append(results, Frame(r.frame))
                /\ pc' = "idle"
           ELSE IF r.kind = "Malformed"
           THEN /\ results' = Append(results, MalformedFrame)
                /\ pc' = "idle"
                /\ UNCHANGED <<buffer, cursor>>
           ELSE /\ pc' = "grow"
                /\ UNCHANGED <<buffer, cursor, results>>
    /\ ev' = "parse"
    /\ UNCHANGED <<stream, pos, reserved, n>>

\* Vec::resize(new_len, 0): truncate, or extend with zeros.
Resize(buf, newLen) ==
    [i \in 1..newLen |-> IF i <= Len(buf) THEN buf[i] ELSE 0]

\* The length read_frame asks for when the buffer is full.
GrownLen(cur) == cur * 2

\* if self.cursor == self.buffer.len() { self.buffer.resize(self.cursor * 2, 0); }
EnsureCapacity ==
    /\ pc = "grow"
    /\ IF cursor = Len(buffer)
       THEN /\ buffer' = Resize(buffer, GrownLen(cursor))
            /\ reserved' = IF GrownLen(cursor) > reserved
                           THEN Max(GrownLen(cursor), 2 * reserved)
                           ELSE reserved
       ELSE UNCHANGED <<buffer, reserved>>
    /\ pc' = "read"
    /\ UNCHANGED <<stream, pos, cursor, n, results, ev>>

\* The length of the slice handed to the transport: &mut self.buffer[self.cursor..]
ReadSliceMutant(buf, res, cur) == res - cur
ReadSlice(buf, res, cur) == Len(buf) - cur

\* What stream.read(slice) can return: -1 for an I/O error, else the byte count.
\* An empty slice takes nothing; otherwise the transport hands over any non-empty
\* part of what the peer has left, and 0 once the peer has closed.
ReadOutcomes(slice) ==
    {-1} \cup (IF slice <= 0 \/ pos = Len(stream)
               THEN {0}
               ELSE 1..Min(slice, Len(stream) - pos))

\* The buffer after the transport wrote k bytes at offset cur.
Written(buf, cur, k) ==
    [i \in 1..Len(buf) |-> IF cur < i /\ i <= cur + k THEN stream[pos + (i - cur)] ELSE buf[i]]

\* Where read_frame goes when the read fails: the `?` returns the error.
FailedReadPcMutant == "read"
FailedReadPc == "idle"

\* let n = self.stream.read(&mut self.buffer[self.cursor..]).await?;
ReadStep ==
    /\ pc = "read"
    /\ \E out \in ReadOutcomes(ReadSlice(buffer, reserved, cursor)) :
          IF out < 0
          THEN /\ results' = Append(results, TransportError)
               /\ pc' = FailedReadPc
               /\ ev' = "fail"
               /\ UNCHANGED <<pos, buffer, n>>
          ELSE /\ n' = out
               /\ buffer' = Written(buffer, cursor, out)
               /\ pos' = pos + out
               /\ pc' = "check"
               /\ ev' = "read"
               /\ UNCHANGED results
    /\ UNCHANGED <<stream, reserved, cursor>>

\* The bytes the transport has handed over once a pending read is dropped:
\* AsyncReadExt::read is cancel safe, a dropped read has taken nothing.
DroppedReadPosMutant(p) == Min(p + 1, Len(stream))
DroppedReadPos(p) == p

\* The task is cancelled at the .await of the read: the future is dropped, the
\* call returns nothing and the Connection stays as it is.
Cancel ==
    /\ pc = "read"
    /\ pc' = "idle"
    /\ ev' = "cancel"
    /\ pos' = DroppedReadPos(pos)
    /\ UNCHANGED <<stream, buffer, reserved, cursor, n, results>>

\* if self.buffer.is_empty() { Ok(None) } else { Err("connection reset by peer") }
EofResultMutant(buf) == IF Len(buf) = 0 THEN TruncatedStream ELSE EndOfStream
\* A reader that treats a read after the end of the stream as an error.
EofResultOnceMutant(buf) ==
    IF Len(buf) = 0 /\ (\A j \in 1..Len(results) : results[j] # EndOfStream)
    THEN EndOfStream
    ELSE TruncatedStream
EofResult(buf) == IF Len(buf) = 0 THEN EndOfStream ELSE TruncatedStream

\* if 0 == n
IsEofMutant(k) == FALSE
IsEof(k) == k = 0

\* if 0 == n { return ... }  self.cursor += n;
AfterRead ==
    /\ pc = "check"
    /\ IF IsEof(n)
       THEN /\ results' = Append(results, EofResult(buffer))
            /\ pc' = "idle"
            /\ UNCHANGED cursor
       ELSE /\ cursor' = cursor + n
            /\ pc' = "parse"
            /\ UNCHANGED results
    /\ UNCHANGED <<stream, pos, buffer, reserved, n, ev>>

Next == StartCall \/ ParseStep \/ EnsureCapacity \/ ReadStep \/ Cancel \/ AfterRead

Spec == Init /\ [][Next]_vars

\* The task that called read_frame keeps being polled and the transport answers
\* every read it is given.
FairSpec ==
    /\ Spec
    /\ WF_vars(ParseStep)
    /\ WF_vars(EnsureCapacity)
    /\ WF_vars(ReadStep)
    /\ WF_vars(AfterRead)

\* ------------------------------------------- the BytesMut sketch of read_frame
\* Connection::new of the second sketch: BytesMut::with_capacity(1024 * 4), a
\* buffer of length 0, and cursor 0.
BytesInit == Init

\* if let Some(frame) = self.parse_frame()? { return Ok(Some(frame)); }
\* There is no capacity check in this sketch: the read follows the parse.
BytesParseStep ==
    /\ pc = "parse"
    /\ LET r == TryParse(Live)
       IN  IF r.kind = "Complete"
           THEN /\ buffer' = Compact(buffer, cursor, r.consumed)
                /\ cursor' = cursor - r.consumed
                /\ results' = Append(results, Frame(r.frame))
                /\ pc' = "idle"
           ELSE IF r.kind = "Malformed"
           THEN /\ results' = Append(results, MalformedFrame)
                /\ pc' = "idle"
                /\ UNCHANGED <<buffer, cursor>>
           ELSE /\ pc' = "read"
                /\ UNCHANGED <<buffer, cursor, results>>
    /\ ev' = "parse"
    /\ UNCHANGED <<stream, pos, reserved, n>>

\* The slice of the read: &mut self.buffer, the whole BytesMut as a byte slice.
BytesReadSlice(buf) == Len(buf)

\* if 0 = self.stream.read(&mut self.buffer).await? {}
\* The body of the test is empty: whatever the read returns, short of an error,
\* the loop goes back to the parse attempt; the cursor is never used.
BytesReadStep ==
    /\ pc = "read"
    /\ \E out \in ReadOutcomes(BytesReadSlice(buffer)) :
          IF out < 0
          THEN /\ results' = Append(results, TransportError)
               /\ pc' = "idle"
               /\ ev' = "fail"
               /\ UNCHANGED <<pos, buffer, n>>
          ELSE /\ n' = out
               /\ buffer' = Written(buffer, 0, out)
               /\ pos' = pos + out
               /\ pc' = "parse"
               /\ ev' = "read"
               /\ UNCHANGED results
    /\ UNCHANGED <<stream, reserved, cursor>>

BytesNext == StartCall \/ BytesParseStep \/ BytesReadStep

BytesSpec == BytesInit /\ [][BytesNext]_vars

TypeOK ==
    /\ stream \in Streams
    /\ pos \in 0..Len(stream)
    /\ cursor \in Nat
    /\ reserved \in Nat
    /\ pc \in {"idle", "parse", "grow", "read", "check"}
    /\ n \in Nat
    /\ Len(results) <= MaxCalls
    /\ ev \in {"none", "start", "parse", "read", "fail", "cancel"}

\* ------------------------------------------------------------- properties

NoTransportError == \A j \in 1..Len(results) : results[j] # TransportError

\* Every read of the reader is over an empty slice: the buffer never gets a
\* length, no byte is ever delivered and the cursor never moves.
NothingDelivered == Len(buffer) = 0 /\ cursor = 0 /\ pos = 0 /\ n = 0

\* C2 (clean EOF): when a transport read returns 0 bytes while the live region
\* is empty (cursor = 0), the call ends there and returns EndOfStream, not an
\* error.
C2_CleanEof ==
    [][(pc = "check" /\ n = 0 /\ cursor = 0)
          => (pc' = "idle" /\ LastResult' = EndOfStream)]_vars

\* A second call has just returned EndOfStream after a 0-byte read with nothing
\* buffered.
C2_Witness ==
    /\ pc = "idle"
    /\ Len(results) = 2
    /\ LastResult = EndOfStream
    /\ n = 0
    /\ cursor = 0

\* C3 (fragmentation invariance): for a stream that is a sequence of complete
\* serialized frames, however the transport splits it into reads, the calls up
\* to the one that returns EndOfStream have returned exactly the frames the
\* whole byte sequence decodes to.
C3_FragmentationInvariance ==
    (pc = "idle" /\ results # <<>> /\ LastResult = EndOfStream /\ WellFormed(stream))
        => Returned = FramesOf(stream)

\* C4 (coalescing): when the transport holds N complete frames that one read
\* into the initial buffer can deliver, the first N calls return those N
\* frames, in their order in the stream.
C4_Coalescing ==
    (/\ pc = "idle"
     /\ WellFormed(stream)
     /\ Len(stream) <= INIT_CAPACITY
     /\ NoTransportError
     /\ Len(results) <= Len(FramesOf(stream)))
        => \A j \in 1..Len(results) : results[j] = Frame(FramesOf(stream)[j])

\* C7 (index invariant): 0 <= cursor <= buffer.len() <= the Vec's capacity in
\* every state, and after a read of n bytes cursor + n <= buffer.len().
C7_IndexInvariant ==
    /\ 0 <= cursor
    /\ cursor <= Len(buffer)
    /\ Len(buffer) <= reserved
    /\ (pc = "check" => cursor + n <= Len(buffer))

\* A second call has parsed, run the capacity check and read.
C7_Witness == pc = "check" /\ Len(results) = 1

\* C9 (no loss under growth): for a stream that is one frame longer than the
\* initial capacity, a call that ends without a transport error returns that
\* frame, byte for byte.
C9_GrowthKeepsFrame ==
    (/\ stream = LargeFrame
     /\ pc = "idle"
     /\ results # <<>>
     /\ NoTransportError)
        => LastResult = Frame(LargeFrame)

\* C10 (growth policy): the buffer the reads fill is 4096 bytes long at first
\* and its length only ever doubles: 4096, 8192, 16384, ...
C10_GrowthPolicy ==
    \E k \in 0..MaxDoublings : Len(buffer) = INIT_CAPACITY * (2 ^ k)

\* C12 (transport error propagation): when a transport read fails, the call
\* returns the transport error in that same step, with the cursor, the buffer
\* and the delivered bytes as they were, and does nothing more: the next step
\* after a failed read is a new call.
C12_TransportErrorPropagates ==
    [][/\ (pc = "read" /\ ev' = "fail")
            => /\ pc' = "idle"
               /\ results' = Append(results, TransportError)
               /\ cursor' = cursor
               /\ buffer' = buffer
               /\ pos' = pos
       /\ (ev = "fail" => ev' = "start")]_vars

\* A call has just returned the error of its failed read.
C12_Witness == ev = "fail" /\ pc = "idle" /\ LastResult = TransportError

\* C15 (termination): every call that is started ends, and a call that ends
\* without being cancelled returns exactly one result: a frame, EndOfStream or
\* an error.
C15_Termination ==
    /\ (pc # "idle") ~> (pc = "idle")
    /\ [][(pc # "idle" /\ pc' = "idle" /\ ev' # "cancel")
             => /\ Len(results') = Len(results) + 1
                /\ SubSeq(results', 1, Len(results)) = results
                /\ LastResult'.kind \in ResultKinds]_vars

\* A call has ended on the 0-byte answer of its read.
C15_Witness == pc = "idle" /\ ev = "read" /\ Len(results) >= 1

\* C17 (cancellation consistency): cancelling a call while its read is
\* outstanding leaves the cursor, the buffer, the delivered bytes and the
\* returned results exactly as they were when the read was issued.
C17_CancelKeepsState ==
    [][(pc = "read" /\ ev' = "cancel")
          => /\ pc' = "idle"
             /\ cursor' = cursor
             /\ buffer' = buffer
             /\ reserved' = reserved
             /\ pos' = pos
             /\ results' = results]_vars

\* A call was cancelled at its read on a connection whose peer has sent bytes,
\* after an earlier call had returned.
C17_Witness == ev = "cancel" /\ pc = "idle" /\ Len(results) >= 1 /\ Len(stream) > 0

\* C18 (non-empty read region): every transport read is given a slice of at
\* least one byte.
C18_NonEmptyReadRegion ==
    pc = "read" => ReadSlice(buffer, reserved, cursor) > 0

\* C20 (parse/read alternation): within a call, the capacity check and the
\* read come right after a parse attempt, the 0 / n test right after a read,
\* and a parse attempt comes first in the call or right after a read.
C20_Alternation ==
    /\ (pc \in {"grow", "read"} => ev = "parse")
    /\ (pc = "check" => ev = "read")
    /\ (pc = "parse" => ev \in {"start", "read"})

\* The third call is about to read, right after its parse attempt.
C20_Witness == pc = "read" /\ ev = "parse" /\ Len(results) = 2

\* C21 (no premature end of stream): a call returns EndOfStream only once the
\* transport has delivered every byte the peer sent and reported its end.
C21_NoPrematureEndOfStream ==
    \A j \in 1..Len(results) : results[j] = EndOfStream => pos = Len(stream)

\* C22 (EndOfStream is stable): once a call has returned EndOfStream, every
\* later call whose reads the transport answers returns EndOfStream as well,
\* and no step changes the buffer or the cursor.
C22_EndOfStreamStable ==
    [][(results # <<>> /\ LastResult = EndOfStream)
          => /\ buffer' = buffer
             /\ cursor' = cursor
             /\ (Len(results') > Len(results) /\ ev' # "fail")
                    => results' = Append(results, EndOfStream)]_vars

\* Three calls in a row have returned EndOfStream.
C22_Witness ==
    /\ pc = "idle"
    /\ Len(results) = 3
    /\ \A j \in 1..3 : results[j] = EndOfStream

\* C23 (sketch equivalence): in the BytesMut sketch a read that returns 0 bytes
\* ends the call: with EndOfStream when nothing unconsumed is buffered, with
\* the truncated-stream error otherwise.
C23_BytesSketchEof ==
    (ev = "read" /\ n = 0)
        => /\ pc = "idle"
           /\ results # <<>>
           /\ LastResult = (IF Len(buffer) = 0 THEN EndOfStream ELSE TruncatedStream)

====
